---- MODULE Spec2Model ----
(***************************************************************************)
(* Model of TranscriptionService (src/transcriber.py): one call of         *)
(* transcribe_audio, from input resolution to the returned                 *)
(* TranscriptionResult, with the retry loop of the Executor, the chunk     *)
(* planner and the assembler; the metadata store opened by the input       *)
(* resolution; two runs whose chunk-file steps interleave; the two loops   *)
(* of the chunk planner, one iteration at a time.                          *)
(*                                                                         *)
(* Units: time in milliseconds, file size in KB (1 MB = 1024 KB).          *)
(* A chunk position k*T/n is kept exactly as the numerator over the        *)
(* denominator n = chunks_needed.                                          *)
(***************************************************************************)
EXTENDS Integers, Sequences, FiniteSets, TLC

\* ---------------------------------------------------------------- bounds
\* largest configured retry cap explored
MaxRetriesBound == 2
\* most chunks the in-process fallback planner is let to produce
MaxPydubChunks == 3
\* most calls of cleanup_temp_dir the caller makes after the run
MaxCleanupCalls == 2
\* chunks each of the two concurrent runs extracts and transcribes
MaxConcurrentChunks == 2

\* ------------------------------------------------------ program constants
KBPerMB == 1024
BytesPerKB == 1024
MsPerSecond == 1000
\* transcribe_audio: safe_duration_limit = 720, max_duration_seconds = 1400
safe_duration_limit == 720 * MsPerSecond
max_duration_seconds == 1400 * MsPerSecond
\* _transcribe_chunked: the token-derived ceiling
max_output_tokens == 2048
api_duration_limit == 1400 * MsPerSecond
\* words_per_token = 0.75, words_per_second = 3.0
max_words_per_chunk == (max_output_tokens * 75) \div 100
max_duration_per_chunk_tokens == (max_words_per_chunk * MsPerSecond) \div 3
\* only 60% of the calculated limit
conservative_limit == (max_duration_per_chunk_tokens * 60) \div 100
\* the planner given the safe ceiling the Strategy Selector compares with
EffectiveLimitIsSafeCeiling == safe_duration_limit

\* effective_duration_limit = min(api_duration_limit, conservative_limit)
effective_duration_limit ==
    IF api_duration_limit < conservative_limit THEN api_duration_limit
    ELSE conservative_limit
\* _create_intelligent_chunks_ffmpeg: overlap 0.5 s when the chunk is > 1350 s
OverlapThreshold == 1350 * MsPerSecond
OverlapMs == 500
\* skip chunks shorter than 1.0 s
MinChunkMs == 1000
\* bitrates of the encoders, in bytes per millisecond:
\* compression -ab 64k, chunk extraction -ab 128k, video extraction -ab 320k
CompressBytesPerMs == 8
ChunkBytesPerMs == 16
ExtractBytesPerMs == 40

\* ------------------------------------------------------------ input sets
\* configured upload limits (MB), the default 25 and a small one
MaxFileSizesMB == {25, 2}
\* configured base delays (seconds)
BaseDelays == {1, 3}
\* sizes of the caller's file (MB)
InputSizesMB == {10, 30}
\* true durations of the audio (ms): 1 min, 3 min, 5 min, 12 min, 13 min 20 s
Durations == {60000, 180000, 300000, 720000, 800000}
\* configured chunk_duration (ms): the default 30 s, and 6 min 40 s
ChunkDurations == {30000, 400000}
\* configured chunk_overlap (ms): the default 0.5 s
ChunkOverlaps == {500}

Min(a, b) == IF a < b THEN a ELSE b
CeilDiv(a, b) == (a + b - 1) \div b

\* ------------------------------------------------------------ text values
\* a text is a sequence of one-character strings
IsSpace(c) == c = " "

RECURSIVE LStrip(_)
LStrip(s) == IF s = <<>> THEN <<>>
             ELSE IF IsSpace(Head(s)) THEN LStrip(Tail(s)) ELSE s

RECURSIVE RStrip(_)
RStrip(s) == IF s = <<>> THEN <<>>
             ELSE IF IsSpace(s[Len(s)]) THEN RStrip(SubSeq(s, 1, Len(s) - 1)) ELSE s

\* str.strip()
Strip(s) == RStrip(LStrip(s))

\* str.lower() on the letters the error descriptions use
Lower(c) ==
    CASE c = "R" -> "r"
      [] c = "S" -> "s"
      [] c = "E" -> "e"
      [] c = "C" -> "c"
      [] c = "T" -> "t"
      [] OTHER -> c

LowerStr(s) == [i \in 1..Len(s) |-> Lower(s[i])]

\* keyword in error_msg
IsSubstring(kw, s) ==
    \E i \in 1..(Len(s) - Len(kw) + 1) : SubSeq(s, i, i + Len(kw) - 1) = kw

\* the retryable keywords of _make_api_call_with_retry
RetryKeywords ==
    { <<"t","i","m","e","o","u","t">>,
      <<"r","a","t","e"," ","l","i","m","i","t">>,
      <<"5">>,
      <<"s","e","r","v","e","r"," ","e","r","r","o","r">>,
      <<"c","o","n","n","e","c","t","i","o","n">> }

IsRetryable(msg) == \E kw \in RetryKeywords : IsSubstring(kw, LowerStr(msg))

\* error descriptions the API client can raise
ErrRateLimit == <<"R","a","t","e"," ","l","i","m","i","t">>
ErrConnection == <<"C","o","n","n","e","c","t","i","o","n">>
ErrAuth == <<"4","0","1">>
ErrAuthKey5 == <<"4","0","1"," ","k","e","y","5">>
ErrMsgs == {ErrRateLimit, ErrConnection, ErrAuth, ErrAuthKey5}

\* the transcript the API returns for unit i: empty, blank, the words of the
\* unit, or a word every unit can return, padded with blanks
Word(i) == <<"w", ToString(i)>>
TextsFor(i) == { <<>>, <<" ">>, Word(i), <<" ", "w", " ">> }


\* ------------------------------------------------------------------ state
NoMessage == <<>>
NoFile == [exists |-> FALSE, size |-> 0, content |-> "none"]
\* the caller's file, the audio extracted from a video, the compressed copy
PathNames == {"input", "extracted", "compressed"}

VARIABLES
    \* configuration of the service (__init__)
    max_retries, base_delay, max_file_size_mb, chunk_duration, chunk_overlap,
    ffmpeg_available, \* shutil.which("ffmpeg") finds the external tool
    \* the input and its environment
    inputKind,        \* "audio" or "video" (suffix in video_extensions)
    trueDuration,     \* duration of the audio content, ms
    probe,            \* what the duration probe does on this file: "ok",
                      \* "zero" (reports 0) or "raise"
    inputPresent,     \* the caller's path names an existing file
    fs,               \* named files: PathNames -> file record
    chunkFiles,       \* indices k with temp_dir/chunk_k.mp3 on disk
    \* locals of transcribe_audio
    pc, audio_path, file_size, optimized_path, optimization, final_file_size,
    duration_seconds, strategy, reasons,
    \* locals of _transcribe_chunked
    chunks, chunkDen, unitIdx, segments, failed_chunks,
    units,            \* per unit handed over so far: its outcome and text
    handed,           \* sequence indices of the chunks given to _transcribe_direct
    \* locals of _make_api_call_with_retry for the unit being transcribed
    exec, attempt, apiCalls, waits, response,
    lastError,        \* description of the last exception the API call raised
    \* observations of the run
    uploads,          \* sizes of the files handed to the API so far
    compressionAttempts, compressionReturned,
    transcodeFailed,  \* an extraction, compression or chunk clip failed
    \* the temp directory of the service and the calls of cleanup_temp_dir
    tempDir, cleanupCalls, cleanupOutcome,
    boundary,         \* an exception reached the handler of transcribe_audio
    outcome,          \* "running", "returned" (a result) or "raised"
    result

VARIABLES
    \* the audio-metadata store (downloads/audio_metadata.json)
    inputForm,        \* audio_input is a Path ("path"), a str naming the
                      \* file ("string") or a str holding an audio ID ("id")
    store,            \* the entries in the store's file
    \* two services running _transcribe_chunked at the same time
    runDir,           \* run -> its temp_dir
    runPc,            \* run -> "extract", "transcribe", "unlink" or "done"
    runUnit,          \* run -> sequence index of the chunk it is at
    disk,             \* chunk path -> the run that wrote the file, 0: no file
    fileOps,          \* accesses so far: run, operation, the file's writer
    \* one call of _create_intelligent_chunks_ffmpeg, one iteration at a time
    planPc,           \* "begin", "ffmpeg", "pydub", "returned" or "raised"
    current_pos, chunk_index,
    planned           \* len(chunks)

config == <<max_retries, base_delay, max_file_size_mb, chunk_duration,
           chunk_overlap, ffmpeg_available>>
environment == <<inputKind, trueDuration, probe, inputPresent>>
selector == <<audio_path, file_size, optimized_path, optimization, final_file_size,
              duration_seconds, strategy, reasons>>
chunking == <<chunks, chunkDen, unitIdx, segments, failed_chunks, units, handed>>
executor == <<exec, attempt, apiCalls, waits, response, lastError>>
observed == <<uploads, compressionAttempts, compressionReturned, transcodeFailed>>
cleanup == <<tempDir, cleanupCalls, cleanupOutcome>>

returned == <<boundary, outcome, result>>

metadata == <<inputForm, store>>
concurrent == <<runDir, runPc, runUnit, disk, fileOps>>
planner == <<planPc, current_pos, chunk_index, planned>>

\* the state of the service running transcribe_audio
service == <<config, environment, fs, chunkFiles, pc, selector, chunking,
             executor, observed, cleanup, returned>>

vars == <<service, metadata, concurrent, planner>>

\* TranscriptionResult with the dataclass defaults
DefaultResult ==
    [ success |-> FALSE, full_transcript |-> <<>>, segments |-> <<>>,
      total_chunks |-> 1, failed_chunks |-> 0,
      file_size_mb |-> 0, optimization_applied |-> "None",
      error_message |-> NoMessage ]

max_file_size_kb == max_file_size_mb * KBPerMB

\* __init__: chunk_duration: float = 30.0
DefaultChunkDuration == 30 * MsPerSecond

\* the locals of a call of transcribe_audio that has not started, and the temp
\* directory __init__ made
Start ==
    /\ chunkFiles = {}
    /\ pc = "resolve"
    /\ audio_path = "input"
    /\ file_size = 0
    /\ optimized_path = "input"
    /\ optimization = "None"
    /\ final_file_size = 0
    /\ duration_seconds = 0
    /\ strategy = "none"
    /\ reasons = <<>>
    /\ chunks = <<>>
    /\ chunkDen = 1
    /\ unitIdx = 0
    /\ segments = <<>>
    /\ failed_chunks = 0
    /\ units = <<>>
    /\ handed = <<>>
    /\ exec = "idle"
    /\ attempt = 0
    /\ apiCalls = 0
    /\ waits = <<>>
    /\ response = <<>>
    /\ lastError = <<>>
    /\ uploads = {}
    /\ compressionAttempts = 0
    /\ compressionReturned = "not called"
    /\ transcodeFailed = FALSE
    /\ tempDir = "present"
    /\ cleanupCalls = 0
    /\ cleanupOutcome = "not called"
    /\ boundary = FALSE
    /\ outcome = "running"
    /\ result = DefaultResult

\* the two runs of the concurrency model
Runs == {1, 2}
\* the temp directories a service can be given
TempDirs == {"tmp_a", "tmp_b"}
\* temp_dir / f"chunk_{chunk_index:03d}.mp3"
ChunkPaths == TempDirs \X (0..(MaxConcurrentChunks - 1))

\* no second service is running
NoConcurrentRun ==
    /\ runDir = [r \in Runs |-> "tmp_a"]
    /\ runPc = [r \in Runs |-> "done"]
    /\ runUnit = [r \in Runs |-> 0]
    /\ disk = [q \in ChunkPaths |-> 0]
    /\ fileOps = {}

\* the chunk planner has not been called on its own
PlannerIdle ==
    /\ planPc = "returned"
    /\ current_pos = 0
    /\ chunk_index = 0
    /\ planned = 0

\* audio_input is a Path object: the metadata store is not opened
PathInput ==
    /\ inputForm = "path"
    /\ store = {}

\* the files before the call: the caller's file of mb MB, if present
InputFiles(present, mb) ==
    [p \in PathNames |->
        IF p = "input" /\ present
        THEN [exists |-> TRUE, size |-> mb * KBPerMB, content |-> "original"]
        ELSE NoFile]

Init ==
    /\ max_retries \in 0..MaxRetriesBound
    /\ base_delay \in BaseDelays
    /\ max_file_size_mb \in MaxFileSizesMB
    /\ ffmpeg_available \in BOOLEAN
    /\ chunk_duration \in ChunkDurations
    /\ chunk_overlap \in ChunkOverlaps
    /\ inputKind \in {"audio", "video"}
    /\ trueDuration \in Durations
    \* chunk_duration is read by the fallback planner only
    /\ ffmpeg_available => chunk_duration = DefaultChunkDuration
    /\ ~ffmpeg_available =>
          CeilDiv(trueDuration, chunk_duration - chunk_overlap) <= MaxPydubChunks
    /\ probe \in {"ok", "zero", "raise"}
    /\ inputPresent \in BOOLEAN
    /\ \E mb \in InputSizesMB : fs = InputFiles(inputPresent, mb)
    /\ Start
    /\ PathInput
    /\ NoConcurrentRun
    /\ PlannerIdle


\* ------------------------------------------------- the orchestrator boundary
\* except Exception at the end of transcribe_audio
BoundaryResult(cause) ==
    [DefaultResult EXCEPT !.error_message = <<"Transcription failed: ", cause>>]

\* the handler written as "except TranscriptionError": other exceptions escape
OuterHandlerNarrow(cause) ==
    IF cause = "TranscriptionError"
    THEN [outcome |-> "returned", result |-> BoundaryResult(cause)]
    ELSE [outcome |-> "raised", result |-> DefaultResult]

\* what leaves transcribe_audio when an exception reaches its handler
OuterHandler(cause) ==
    [outcome |-> "returned", result |-> BoundaryResult(cause)]

\* an exception reaches the end of the try block of transcribe_audio
RaiseToBoundary(cause) ==
    /\ boundary' = TRUE
    /\ outcome' = OuterHandler(cause).outcome
    /\ result' = OuterHandler(cause).result
    /\ pc' = "done"

\* transcribe_audio returns r
Return(r) ==
    /\ boundary' = boundary
    /\ outcome' = "returned"
    /\ result' = r
    /\ pc' = "done"

\* the early return written without its error_message
NotFoundResultNoMessage(path) == DefaultResult

\* the early return of transcribe_audio for a path that does not exist
NotFoundResult(path) ==
    [DefaultResult EXCEPT !.error_message = <<"Audio file not found: ", path>>]

\* ------------------------------------------------------ input resolution
\* the file _extract_audio_from_video writes: mp3 at 320 kbit/s
ExtractedFile ==
    [ exists |-> TRUE,
      size |-> (trueDuration * ExtractBytesPerMs) \div BytesPerKB,
      content |-> "extracted" ]

\* the audio ID the caller passes, and the entries the store can hold: the
\* entry of that ID (its file is the caller's file), an entry whose file has
\* been deleted, an entry whose file exists
InputId == "a1"
EntryInput == [id |-> InputId, file_path |-> "input"]
EntryOrphan == [id |-> "a2", file_path |-> "deleted.mp3"]
EntryLive == [id |-> "a3", file_path |-> "kept.mp3"]
Entries == {EntryInput, EntryOrphan, EntryLive}

\* Path(metadata.file_path).exists()
FileExists(f, path) == IF path \in PathNames THEN f[path].exists ELSE path = "kept.mp3"

\* the entries _cleanup_orphaned_metadata deletes
Orphaned(entries, f) == {e \in entries : ~FileExists(f, e.file_path)}

\* AudioMetadataManager.load_metadata: self.metadata after the load; load
\* says whether the file could be read and parsed
LoadMetadata(entries, f, load) ==
    IF load = "ok" THEN entries \ Orphaned(entries, f) ELSE {}

\* the store's file after load_metadata: _cleanup_orphaned_metadata saves
\* the cleaned entries when it removed any; save says whether the write works
StoreAfterLoad(entries, f, load, save) ==
    IF load = "ok" /\ Orphaned(entries, f) # {} /\ save = "ok"
    THEN entries \ Orphaned(entries, f)
    ELSE entries

\* _resolve_audio_input, then the existence check of transcribe_audio.
\* ex is the outcome of the external extraction of a video's audio; a str
\* input opens the metadata store first and looks the string up as an ID.
Resolve ==
    /\ pc = "resolve"
    /\ \E ex \in {"ok", "fail"}, load \in {"ok", "fail"}, save \in {"ok", "fail"} :
         LET opened == inputForm # "path"
             found == /\ inputForm = "id"
                      /\ EntryInput \in LoadMetadata(store, fs, load)
             \* an ID the store does not hold is taken as a file path
             unknown == inputForm = "id" /\ ~found
             \* a path found in the store is returned as it is
             isVideo == inputKind = "video" /\ inputForm # "id"
             \* input_path.stat() of the size banner raises on a missing file
             statRaises == isVideo /\ ~fs["input"].exists
             extracted == isVideo /\ ~statRaises /\ ffmpeg_available /\ ex = "ok"
             fs1 == IF extracted THEN [fs EXCEPT !["extracted"] = ExtractedFile] ELSE fs
             path == IF extracted THEN "extracted" ELSE "input"
         IN  /\ store' = IF opened THEN StoreAfterLoad(store, fs, load, save) ELSE store
             /\ fs' = fs1
             /\ audio_path' = path
             /\ optimized_path' = path
             /\ transcodeFailed' =
                    (transcodeFailed \/ (isVideo /\ ~statRaises /\ ~extracted))
             /\ IF statRaises THEN RaiseToBoundary("FileNotFoundError")
                ELSE IF unknown THEN Return(NotFoundResult(InputId))
                ELSE IF ~fs1[path].exists THEN Return(NotFoundResult(path))
                ELSE pc' = "optimize" /\ UNCHANGED returned
    /\ UNCHANGED <<config, environment, chunkFiles, file_size, optimization,
                   final_file_size, duration_seconds, strategy, reasons,
                   chunking, executor, uploads, compressionAttempts,
                   compressionReturned, cleanup>>
    /\ UNCHANGED <<inputForm, concurrent, planner>>

\* ----------------------------------------------------------- compression
\* the file both compressors write: mono, 22 kHz, 64 kbit/s
CompressedFile ==
    [ exists |-> TRUE,
      size |-> (trueDuration * CompressBytesPerMs) \div BytesPerKB,
      content |-> "compressed" ]

\* audio_path.unlink() then temp_compressed_path.rename(audio_path);
\* mv says which of the two steps the file system refuses, if any
ReplaceOriginal(f, path, mv) ==
    CASE mv = "ok" ->
           [ raised |-> FALSE,
             fs |-> [f EXCEPT ![path] = f["compressed"], !["compressed"] = NoFile] ]
      [] mv = "unlink_fail" -> [raised |-> TRUE, fs |-> f]
      [] mv = "rename_fail" -> [raised |-> TRUE, fs |-> [f EXCEPT ![path] = NoFile]]

\* _try_compression_pydub_fallback: ret is "path" or "None"
TryCompressionPydubFallback(f, path, pd, mv) ==
    IF ~f[path].exists \/ pd = "raise"
    THEN [ret |-> "None", fs |-> f]
    ELSE LET f1 == [f EXCEPT !["compressed"] = CompressedFile]
             r == ReplaceOriginal(f1, path, mv)
         IN  [ret |-> IF r.raised THEN "None" ELSE "path", fs |-> r.fs]

\* _try_compression: ff is the outcome of the external tool
TryCompression(f, path, ff, pd, mv) ==
    IF ~ffmpeg_available THEN TryCompressionPydubFallback(f, path, pd, mv)
    ELSE CASE ff = "rc_fail" -> [ret |-> "None", fs |-> f]
           [] ff = "raise" -> TryCompressionPydubFallback(f, path, pd, mv)
           [] ff = "ok" ->
                LET f1 == [f EXCEPT !["compressed"] = CompressedFile]
                    r == ReplaceOriginal(f1, path, mv)
                IN  IF r.raised
                    THEN TryCompressionPydubFallback(r.fs, path, pd, mv)
                    ELSE [ret |-> "path", fs |-> r.fs]

\* _get_audio_duration_efficient: the duration, or "raise"
ProbeRaises == probe = "raise"
ProbedDuration == IF probe = "zero" THEN 0 ELSE trueDuration

\* _optimize_audio_file
OptimizeAudioFile(f, path, size, ff, pd, mv) ==
    IF size <= max_file_size_kb
    THEN [path |-> path, label |-> "None", fs |-> f, ret |-> "not called"]
    ELSE LET chunks_needed == CeilDiv(ProbedDuration, safe_duration_limit)
             skip == /\ ~ProbeRaises
                     /\ ProbedDuration > safe_duration_limit
                     /\ size <= max_file_size_kb * chunks_needed
         IN  IF skip
             THEN [path |-> path, label |-> "chunking_optimized", fs |-> f,
                   ret |-> "not called"]
             ELSE LET c == TryCompression(f, path, ff, pd, mv)
                  IN  IF c.ret = "path" /\ c.fs[path].size <= max_file_size_kb
                      THEN [path |-> path, label |-> "compression", fs |-> c.fs,
                            ret |-> c.ret]
                      ELSE [path |-> path, label |-> "chunking_required",
                            fs |-> c.fs, ret |-> c.ret]

\* transcribe_audio: size, optimization, size again
Optimize ==
    /\ pc = "optimize"
    /\ \E ff \in {"ok", "rc_fail", "raise"}, pd \in {"ok", "raise"},
          mv \in {"ok", "unlink_fail", "rename_fail"} :
         LET size == fs[audio_path].size
             o == OptimizeAudioFile(fs, audio_path, size, ff, pd, mv)
         IN  /\ file_size' = size
             /\ fs' = o.fs
             /\ optimized_path' = o.path
             /\ optimization' = o.label
             /\ compressionAttempts' =
                    compressionAttempts + (IF o.ret = "not called" THEN 0 ELSE 1)
             /\ compressionReturned' = o.ret
             /\ transcodeFailed' = (transcodeFailed \/ o.ret = "None")
             /\ IF ~o.fs[o.path].exists
                THEN \* optimized_path.stat() raises
                     /\ final_file_size' = final_file_size
                     /\ RaiseToBoundary("FileNotFoundError")
                ELSE /\ final_file_size' = o.fs[o.path].size
                     /\ pc' = "select"
                     /\ UNCHANGED returned
    /\ UNCHANGED <<config, environment, chunkFiles, audio_path,
                   duration_seconds, strategy, reasons, chunking, executor,
                   uploads, cleanup>>
    /\ UNCHANGED <<metadata, concurrent, planner>>


\* ---------------------------------------------------------- the Executor
\* the loop written as range(self.max_retries)
MaxAttemptsOneLess == max_retries

\* for attempt in range(self.max_retries + 1)
MaxAttempts == max_retries + 1

\* the delay written as base_delay * 2 ** (attempt + 1)
BackoffDelayFromTwo(att) == base_delay * (2 ^ (att + 1))

\* delay = self.base_delay * (2 ** attempt), attempt counted from 0
BackoffDelay(att) == base_delay * (2 ^ att)

\* if attempt < self.max_retries and is_retryable
ShouldRetry(att, msg) == att < max_retries /\ IsRetryable(msg)

\* entry of _make_api_call_with_retry: the loop runs, or falls through
ExecAtEntry == IF MaxAttempts <= 0 THEN "none" ELSE "calling"

\* the locals of the Executor are gone once its caller has its result
ExecutorReturned ==
    /\ exec' = "idle"
    /\ attempt' = 0
    /\ apiCalls' = 0
    /\ waits' = <<>>
    /\ response' = <<>>
    /\ lastError' = <<>>

\* the executor starts on a new unit
StartExecutor ==
    /\ exec' = ExecAtEntry
    /\ attempt' = 0
    /\ apiCalls' = 0
    /\ waits' = <<>>
    /\ response' = <<>>
    /\ lastError' = <<>>

\* what the API can answer for unit i
ApiOutcomes(i) ==
    {[ok |-> TRUE, text |-> t, msg |-> <<>>] : t \in TextsFor(i)}
      \cup {[ok |-> FALSE, text |-> <<>>, msg |-> m] : m \in ErrMsgs}

\* size of an extracted chunk: mono mp3 at 128 kbit/s
ChunkSize(c) == ((c.end_time - c.start_time) * ChunkBytesPerMs) \div (chunkDen * BytesPerKB)

\* the file handed to client.audio_transcription
UploadSize ==
    IF pc = "direct" THEN fs[optimized_path].size
    ELSE ChunkSize(chunks[unitIdx + 1])

\* one iteration of the retry loop of _make_api_call_with_retry
ApiAttempt ==
    /\ pc \in {"direct", "unit"}
    /\ exec = "calling"
    /\ \E out \in ApiOutcomes(IF pc = "direct" THEN 0 ELSE unitIdx) :
         /\ apiCalls' = apiCalls + 1
         /\ uploads' = uploads \cup {UploadSize}
         /\ IF out.ok
            THEN /\ exec' = "response"
                 /\ response' = out.text
                 /\ UNCHANGED <<attempt, waits, lastError>>
            ELSE IF ShouldRetry(attempt, out.msg)
            THEN /\ waits' = Append(waits, BackoffDelay(attempt))
                 /\ attempt' = attempt + 1
                 /\ exec' = IF attempt + 1 < MaxAttempts THEN "calling" ELSE "none"
                 /\ lastError' = out.msg
                 /\ UNCHANGED response
            ELSE /\ exec' = "raised"
                 /\ lastError' = out.msg
                 /\ UNCHANGED <<attempt, waits, response>>
    /\ UNCHANGED <<config, environment, fs, chunkFiles, pc, selector, chunking,
                   compressionAttempts, compressionReturned, transcodeFailed,
                   cleanup, returned>>
    /\ UNCHANGED <<metadata, concurrent, planner>>

\* _transcribe_direct after the Executor returned: the result of one unit.
\* isNone: the function ended without a return statement.
UnitResult(ex, text, err) ==
    CASE ex = "response" /\ text # <<>> ->
           [isNone |-> FALSE, success |-> TRUE, text |-> text,
            error_message |-> NoMessage]
      [] ex = "response" /\ text = <<>> ->
           [isNone |-> TRUE, success |-> FALSE, text |-> <<>>,
            error_message |-> NoMessage]
      [] ex = "none" ->
           [isNone |-> FALSE, success |-> FALSE, text |-> <<>>,
            error_message |-> <<"No response from API">>]
      [] ex = "raised" ->
           [isNone |-> FALSE, success |-> FALSE, text |-> <<>>,
            error_message |-> <<"Direct transcription failed: ",
                                "API call failed: ", err>>]

\* ------------------------------------------------------ strategy selection
\* the rationale written as an if / elif chain: the first condition that
\* holds is the only one named
ReasonsFirstOnly(size, d) ==
    IF size > max_file_size_kb THEN <<"file size exceeds API limit">>
    ELSE IF d > safe_duration_limit THEN <<"duration exceeds safe limit">>
    ELSE IF d > max_duration_seconds THEN <<"duration exceeds absolute API limit">>
    ELSE <<>>

\* the rationale of the chunking strategy: three independent ifs, each
\* appending its reason
Reasons(size, d) ==
    (IF size > max_file_size_kb THEN <<"file size exceeds API limit">> ELSE <<>>)
      \o (IF d > safe_duration_limit THEN <<"duration exceeds safe limit">> ELSE <<>>)
      \o (IF d > max_duration_seconds
          THEN <<"duration exceeds absolute API limit">> ELSE <<>>)

\* the test written with a strict duration comparison
IsDirectStrict(size, d) == size <= max_file_size_kb /\ d < safe_duration_limit

\* the test that selects direct transcription
IsDirect(size, d) == size <= max_file_size_kb /\ d <= safe_duration_limit

\* transcribe_audio: duration probe and choice of the strategy
SelectStrategy ==
    /\ pc = "select"
    /\ LET d == IF ProbeRaises THEN 0 ELSE ProbedDuration
       IN  /\ duration_seconds' = d
           /\ IF IsDirect(final_file_size, d)
              THEN /\ strategy' = "direct"
                   /\ reasons' = <<>>
                   /\ pc' = "direct"
                   /\ StartExecutor
              ELSE /\ strategy' = "chunked"
                   /\ reasons' = Reasons(final_file_size, d)
                   /\ pc' = "chunk_plan"
                   /\ UNCHANGED executor
    /\ UNCHANGED <<config, environment, fs, chunkFiles, audio_path, file_size,
                   optimized_path, optimization, final_file_size, chunking,
                   observed, cleanup, returned>>
    /\ UNCHANGED <<metadata, concurrent, planner>>

\* results carry the metadata transcribe_audio adds after the strategy ran
WithMetadata(r) ==
    [r EXCEPT !.file_size_mb = final_file_size,
              !.optimization_applied = optimization]

\* _cleanup_temp_file(optimized_path) when it differs from audio_path
CleanupOptimized(f) ==
    IF optimized_path # audio_path THEN [f EXCEPT ![optimized_path] = NoFile] ELSE f

\* _transcribe_direct returns and transcribe_audio finishes the direct run
TranscribeDirectReturn ==
    /\ pc = "direct"
    /\ exec \in {"response", "raised", "none"}
    /\ LET r == UnitResult(exec, response, lastError)
       IN  /\ units' = <<[ok |-> r.success, text |-> r.text]>>
           /\ IF r.isNone
              THEN \* result.processing_time = ... on None
                   /\ RaiseToBoundary("AttributeError")
                   /\ fs' = fs
              ELSE /\ Return(WithMetadata(
                        [DefaultResult EXCEPT
                           !.success = r.success,
                           !.full_transcript = r.text,
                           !.segments =
                              IF r.success
                              THEN <<[start_time |-> 0, end_time |-> 0, text |-> r.text]>>
                              ELSE <<>>,
                           !.error_message = r.error_message]))
                   /\ fs' = CleanupOptimized(fs)
    /\ ExecutorReturned
    /\ UNCHANGED <<config, environment, chunkFiles, selector, chunks, chunkDen,
                   unitIdx, segments, failed_chunks, handed, observed, cleanup>>
    /\ UNCHANGED <<metadata, concurrent, planner>>


\* ------------------------------------------------------ the Chunk Planner
\* chunks_needed = math.ceil(total_duration / max_duration_per_chunk)
ChunksNeeded(T, L) == CeilDiv(T, L)

\* chunk_overlap = 0.5 if optimal_chunk_duration > 1350 else 0.0
PlannerOverlap(T, n) == IF T > OverlapThreshold * n THEN OverlapMs ELSE 0

\* The while loop of _create_intelligent_chunks_ffmpeg.  Positions are
\* numerators over n, so optimal_chunk_duration = T/n is the numerator T.
\* failAt is the index of the first chunk whose extraction fails (n: none).
RECURSIVE ChunkLoop(_, _, _, _, _, _)
ChunkLoop(T, n, ov, failAt, pos, idx) ==
    IF ~(pos < n * T) THEN <<>>
    ELSE LET start_time == pos
             end_time == Min(pos + T, n * T)
             actual_duration == end_time - start_time
         IN  IF actual_duration < MinChunkMs * n THEN <<>>
             ELSE IF idx = failAt THEN <<>>
             ELSE <<[start_time |-> start_time, end_time |-> end_time,
                     index |-> idx, has_path |-> TRUE]>>
                    \o (IF idx + 1 >= n THEN <<>>
                        ELSE ChunkLoop(T, n, ov, failAt, pos + T - ov * n, idx + 1))

\* _create_intelligent_chunks_ffmpeg with the external tool present
CreateIntelligentChunksFfmpeg(T, L, failAt) ==
    LET n == ChunksNeeded(T, L)
    IN  ChunkLoop(T, n, PlannerOverlap(T, n), failAt, 0, 0)

\* The while loop of _create_intelligent_chunks_pydub_fallback; positions in
\* ms, len(audio) = T.
RECURSIVE PydubLoop(_, _, _)
PydubLoop(T, pos, idx) ==
    IF ~(pos < T) THEN <<>>
    ELSE LET end_pos == Min(pos + chunk_duration, T)
         IN  <<[start_time |-> pos, end_time |-> end_pos, index |-> idx,
                has_path |-> FALSE]>>
               \o PydubLoop(T, pos + chunk_duration - chunk_overlap, idx + 1)

\* _create_intelligent_chunks_pydub_fallback; load is the outcome of
\* AudioSegment.from_file
CreateIntelligentChunksPydubFallback(T, load) ==
    IF load = "raise" THEN [raised |-> TRUE, chunks |-> <<>>]
    ELSE [raised |-> FALSE, chunks |-> PydubLoop(T, 0, 0)]

\* _create_intelligent_chunks_ffmpeg: the list of chunks and the denominator
\* of their positions
CreateIntelligentChunks(T, L, failAt, load) ==
    LET n == ChunksNeeded(T, L)
    IN  IF ffmpeg_available \/ T < MinChunkMs * n
        THEN [chunks |-> CreateIntelligentChunksFfmpeg(T, L, failAt), den |-> n,
              failed |-> T >= MinChunkMs * n /\ failAt < n]
        ELSE \* the first iteration finds no external tool; an exception of
             \* the fallback is caught by the except of the loop body
             [chunks |-> CreateIntelligentChunksPydubFallback(T, load).chunks,
              den |-> 1,
              failed |-> CreateIntelligentChunksPydubFallback(T, load).raised]

\* result of _transcribe_chunked when its try block raises
ChunkedFailedResult(cause) ==
    [DefaultResult EXCEPT !.error_message = <<"Chunked transcription failed: ", cause>>]

\* _transcribe_chunked up to the loop over the chunks: duration probe,
\* effective ceiling, creation of the chunk files
TranscribeChunkedPlan ==
    /\ pc = "chunk_plan"
    /\ IF ProbeRaises \/ ProbedDuration = 0
       THEN \* the probe raises, or total_duration / chunks_needed divides by 0
            /\ Return(WithMetadata(ChunkedFailedResult(
                            IF ProbeRaises THEN "probe" ELSE "division by zero")))
            /\ UNCHANGED <<chunks, chunkDen, chunkFiles, unitIdx, executor,
                           transcodeFailed>>
       ELSE \E failAt \in 0..ChunksNeeded(ProbedDuration, effective_duration_limit),
               load \in {"ok", "raise"} :
              LET p == CreateIntelligentChunks(
                            ProbedDuration, effective_duration_limit, failAt, load)
                  cs == p.chunks
              IN  /\ chunks' = cs
                  /\ chunkDen' = p.den
                  /\ chunkFiles' = {cs[k].index : k \in {j \in 1..Len(cs) : cs[j].has_path}}
                  /\ unitIdx' = 0
                  /\ pc' = IF cs = <<>> THEN "chunk_ret" ELSE "unit_begin"
                  /\ transcodeFailed' = (transcodeFailed \/ p.failed)
                  /\ UNCHANGED <<executor, returned>>
    /\ UNCHANGED <<config, environment, fs, selector, segments, failed_chunks,
                   units, handed, uploads, compressionAttempts,
                   compressionReturned, cleanup>>
    /\ UNCHANGED <<metadata, concurrent, planner>>

\* the loop over the chunks reaches the next chunk
NextChunk ==
    IF unitIdx + 1 < Len(chunks)
    THEN unitIdx' = unitIdx + 1 /\ pc' = "unit_begin"
    ELSE unitIdx' = unitIdx /\ pc' = "chunk_ret"

\* the body of the loop over the chunks, up to the call of
\* _transcribe_direct: a chunk of the external tool has its file, a chunk
\* of the fallback is exported now (exp is the outcome of the export)
ChunkUnitBegin ==
    /\ pc = "unit_begin"
    /\ \E exp \in {"ok", "raise"} :
         LET c == chunks[unitIdx + 1]
         IN  IF c.has_path \/ exp = "ok"
             THEN /\ chunkFiles' = chunkFiles \cup {c.index}
                  /\ pc' = "unit"
                  /\ StartExecutor
                  /\ handed' = Append(handed, c.index)
                  /\ UNCHANGED <<unitIdx, failed_chunks, units, transcodeFailed>>
             ELSE \* the export raises: except of the loop body
                  /\ failed_chunks' = failed_chunks + 1
                  /\ units' = Append(units, [ok |-> FALSE, text |-> <<>>])
                  /\ NextChunk
                  /\ transcodeFailed' = TRUE
                  /\ UNCHANGED <<chunkFiles, executor, handed>>
    /\ UNCHANGED <<config, environment, fs, selector, chunks, chunkDen, segments,
                   uploads, compressionAttempts, compressionReturned, cleanup,
                   returned>>
    /\ UNCHANGED <<metadata, concurrent, planner>>

\* the body of the loop over the chunks, after _transcribe_direct returned:
\* delete the chunk file, record the segment or count the failure, go on
ChunkUnitReturn ==
    /\ pc = "unit"
    /\ exec \in {"response", "raised", "none"}
    /\ LET r == UnitResult(exec, response, lastError)
           c == chunks[unitIdx + 1]
       IN  /\ chunkFiles' = chunkFiles \ {c.index}
           /\ units' = Append(units, [ok |-> r.success, text |-> r.text])
           /\ IF ~r.isNone /\ r.success
              THEN /\ segments' = Append(segments,
                        [start_time |-> c.start_time, end_time |-> c.end_time,
                         text |-> r.text])
                   /\ failed_chunks' = failed_chunks
              ELSE /\ segments' = segments
                   /\ failed_chunks' = failed_chunks + 1
    /\ NextChunk
    /\ ExecutorReturned
    /\ UNCHANGED <<config, environment, fs, selector, chunks, chunkDen, handed,
                   observed, cleanup, returned>>
    /\ UNCHANGED <<metadata, concurrent, planner>>

\* ------------------------------------------------ the Transcript Assembler
\* the sort written with reverse=True
RECURSIVE InsertSortedDescending(_, _)
InsertSortedDescending(sorted, seg) ==
    IF sorted = <<>> THEN <<seg>>
    ELSE IF seg.start_time > Head(sorted).start_time THEN <<seg>> \o sorted
    ELSE <<Head(sorted)>> \o InsertSortedDescending(Tail(sorted), seg)

\* sorted(segments, key=lambda s: s.start_time), a stable sort
RECURSIVE InsertSorted(_, _)
InsertSorted(sorted, seg) ==
    IF sorted = <<>> THEN <<seg>>
    ELSE IF seg.start_time < Head(sorted).start_time THEN <<seg>> \o sorted
    ELSE <<Head(sorted)>> \o InsertSorted(Tail(sorted), seg)

RECURSIVE SortByStart(_)
SortByStart(segs) ==
    IF segs = <<>> THEN <<>>
    ELSE InsertSorted(SortByStart(SubSeq(segs, 1, Len(segs) - 1)), segs[Len(segs)])

\* " ".join(parts)
RECURSIVE JoinWithSpace(_)
JoinWithSpace(parts) ==
    IF parts = <<>> THEN <<>>
    ELSE IF Len(parts) = 1 THEN parts[1]
    ELSE parts[1] \o <<" ">> \o JoinWithSpace(Tail(parts))

\* the parts with a text equal to the text before it left out
TranscriptPartsDeduplicated(segs) ==
    LET stripped == [k \in 1..Len(segs) |-> Strip(segs[k].text)]
        kept == {k \in 1..Len(segs) :
                    stripped[k] # <<>> /\ (k > 1 => stripped[k] # stripped[k - 1])}
        Pick[k \in 0..Len(segs)] ==
            IF k = 0 THEN <<>>
            ELSE IF k \in kept THEN Append(Pick[k - 1], stripped[k]) ELSE Pick[k - 1]
    IN  Pick[Len(segs)]

\* [segment.text.strip() for segment in sorted_segments if segment.text.strip()]
TranscriptParts(segs) ==
    LET stripped == [k \in 1..Len(segs) |-> Strip(segs[k].text)]
    IN  SelectSeq(stripped, LAMBDA t : t # <<>>)

\* _assemble_transcript_from_segments
AssembleTranscriptFromSegments(segs) ==
    IF segs = <<>> THEN <<>>
    ELSE JoinWithSpace(TranscriptParts(SortByStart(segs)))

\* success written as "no chunk failed"
ChunkedResultAllOrNothing(segs, failed, total) ==
    [DefaultResult EXCEPT
       !.success = (failed = 0),
       !.full_transcript = AssembleTranscriptFromSegments(segs),
       !.segments = segs,
       !.total_chunks = total,
       !.failed_chunks = failed]

\* the value _transcribe_chunked returns after the loop
ChunkedResult(segs, failed, total) ==
    [DefaultResult EXCEPT
       !.success = Len(segs) > 0,
       !.full_transcript = AssembleTranscriptFromSegments(segs),
       !.segments = segs,
       !.total_chunks = total,
       !.failed_chunks = failed]

\* _transcribe_chunked returns and transcribe_audio finishes the chunked run
TranscribeChunkedReturn ==
    /\ pc = "chunk_ret"
    /\ Return(WithMetadata(ChunkedResult(segments, failed_chunks, Len(chunks))))
    /\ fs' = CleanupOptimized(fs)
    /\ UNCHANGED <<config, environment, chunkFiles, selector, chunking, executor,
                   observed, cleanup>>
    /\ UNCHANGED <<metadata, concurrent, planner>>

\* ------------------------------------------------------- cleanup_temp_dir
\* the temp directory holds the extracted audio, the compressed copy and the
\* chunk files; shutil.rmtree removes them with it
RemoveTree(f) == [f EXCEPT !["extracted"] = NoFile, !["compressed"] = NoFile]

\* cleanup_temp_dir without its try/except: an error of rmtree escapes
CleanupHandlerMissing(rm) == IF rm = "raise" THEN "raised" ELSE "returned"

\* how cleanup_temp_dir ends when rmtree ended as rm: "except Exception"
\* logs the error and the method returns
CleanupHandler(rm) == "returned"

\* one call of cleanup_temp_dir by the caller, after transcribe_audio
\* returned; rm is the outcome of shutil.rmtree
CleanupTempDir ==
    /\ pc = "done"
    /\ cleanupCalls < MaxCleanupCalls
    /\ cleanupCalls' = cleanupCalls + 1
    /\ IF tempDir = "absent"
       THEN \* self.temp_dir.exists() is false
            /\ cleanupOutcome' = "returned"
            /\ UNCHANGED <<tempDir, fs, chunkFiles>>
       ELSE \E rm \in {"ok", "raise"} :
              /\ cleanupOutcome' = CleanupHandler(rm)
              /\ IF rm = "ok"
                 THEN /\ tempDir' = "absent"
                      /\ fs' = RemoveTree(fs)
                      /\ chunkFiles' = {}
                 ELSE UNCHANGED <<tempDir, fs, chunkFiles>>
    /\ UNCHANGED <<config, environment, pc, selector, chunking, executor,
                   observed, returned>>
    /\ UNCHANGED <<metadata, concurrent, planner>>

\* ---------------------------------------------------------- specification
Next ==
    \/ Resolve
    \/ Optimize
    \/ SelectStrategy
    \/ ApiAttempt
    \/ TranscribeDirectReturn
    \/ TranscribeChunkedPlan
    \/ ChunkUnitBegin
    \/ ChunkUnitReturn
    \/ TranscribeChunkedReturn
    \/ CleanupTempDir

Spec == Init /\ [][Next]_vars

\* One scenario: a 40-minute, 15 MB audio file, limit 25 MB, the external
\* tool present, no retries configured.
ScenarioInit ==
    /\ max_retries = 0
    /\ base_delay = 1
    /\ max_file_size_mb = 25
    /\ ffmpeg_available = TRUE
    /\ chunk_duration = DefaultChunkDuration
    /\ chunk_overlap \in ChunkOverlaps
    /\ inputKind = "audio"
    /\ trueDuration = 40 * 60 * MsPerSecond
    /\ probe \in {"ok", "zero", "raise"}
    /\ inputPresent = TRUE
    /\ fs = InputFiles(TRUE, 15)
    /\ Start
    /\ PathInput
    /\ NoConcurrentRun
    /\ PlannerIdle

ScenarioSpec == ScenarioInit /\ [][Next]_vars

\* The strategy selection alone: transcribe_audio up to the call of the
\* strategy, over durations on both sides of the safe ceiling (720 s) and of
\* the absolute cap (1400 s).
SelectorDurations ==
    {60 * MsPerSecond, safe_duration_limit, safe_duration_limit + 1,
     max_duration_seconds, max_duration_seconds + 1, 40 * 60 * MsPerSecond}

SelectorInit ==
    /\ max_retries = 0
    /\ base_delay = 1
    /\ max_file_size_mb \in MaxFileSizesMB
    /\ ffmpeg_available \in BOOLEAN
    /\ chunk_duration = DefaultChunkDuration
    /\ chunk_overlap \in ChunkOverlaps
    /\ inputKind \in {"audio", "video"}
    /\ trueDuration \in SelectorDurations
    /\ probe \in {"ok", "zero", "raise"}
    /\ inputPresent \in BOOLEAN
    /\ \E mb \in InputSizesMB : fs = InputFiles(inputPresent, mb)
    /\ Start
    /\ PathInput
    /\ NoConcurrentRun
    /\ PlannerIdle

SelectorNext ==
    \/ Resolve
    \/ Optimize
    \/ SelectStrategy

SelectorSpec == SelectorInit /\ [][SelectorNext]_vars

\* Calls of transcribe_audio with each form of audio_input, over every
\* content of the metadata store; no retries, limit 25 MB, a 10 MB input
\* that is short (direct) or long (chunked).
StoreInit ==
    /\ max_retries = 0
    /\ base_delay = 1
    /\ max_file_size_mb = 25
    /\ ffmpeg_available = TRUE
    /\ chunk_duration = DefaultChunkDuration
    /\ chunk_overlap \in ChunkOverlaps
    /\ inputKind \in {"audio", "video"}
    /\ trueDuration \in {60 * MsPerSecond, 800 * MsPerSecond}
    /\ probe = "ok"
    /\ inputPresent \in BOOLEAN
    /\ fs = InputFiles(inputPresent, 10)
    /\ Start
    /\ inputForm \in {"path", "string", "id"}
    /\ store \in SUBSET Entries
    /\ NoConcurrentRun
    /\ PlannerIdle

StoreSpec == StoreInit /\ [][Next]_vars

\* one service with fixed configuration and input, before any call
OneService ==
    /\ max_retries = 0
    /\ base_delay = 1
    /\ max_file_size_mb = 25
    /\ chunk_duration = DefaultChunkDuration
    /\ chunk_overlap \in ChunkOverlaps
    /\ inputKind = "audio"
    /\ probe = "ok"
    /\ inputPresent = TRUE
    /\ fs = InputFiles(TRUE, 10)
    /\ Start
    /\ PathInput

\* ------------------------------------------- two runs at the same time
\* Two services, each in _transcribe_chunked on its own source, with the
\* external tool: every clip is extracted to its chunk file, then each
\* chunk file is handed to _transcribe_direct and unlinked.  The steps of
\* the two runs interleave freely.

\* chunk files named by the sequence index alone, in one common directory
ChunkPathIndexOnly(dir, idx) == <<"tmp_a", idx>>

\* chunk_path = self.temp_dir / f"chunk_{chunk_index:03d}.mp3"
ChunkPath(dir, idx) == <<dir, idx>>

\* the access of run r to the file at q is noted with the file's writer
RecordOp(r, op, q) == fileOps \cup {[run |-> r, op |-> op, writer |-> disk[q]]}

\* the loop over the chunks of run r moves on
RunNextUnit(r, last, after) ==
    IF runUnit[r] + 1 < MaxConcurrentChunks
    THEN /\ runUnit' = [runUnit EXCEPT ![r] = runUnit[r] + 1]
         /\ runPc' = [runPc EXCEPT ![r] = last]
    ELSE /\ runUnit' = [runUnit EXCEPT ![r] = 0]
         /\ runPc' = [runPc EXCEPT ![r] = after]

\* ffmpeg -y ... chunk_path: the clip of run r's source is written
RunExtract(r) ==
    /\ runPc[r] = "extract"
    /\ LET q == ChunkPath(runDir[r], runUnit[r])
       IN  /\ fileOps' = RecordOp(r, "write", q)
           /\ disk' = [disk EXCEPT ![q] = r]
    /\ RunNextUnit(r, "extract", "transcribe")
    /\ UNCHANGED <<runDir, service, metadata, planner>>

\* _transcribe_direct(chunk_path, ...) opens the chunk file
RunTranscribe(r) ==
    /\ runPc[r] = "transcribe"
    /\ fileOps' = RecordOp(r, "read", ChunkPath(runDir[r], runUnit[r]))
    /\ runPc' = [runPc EXCEPT ![r] = "unlink"]
    /\ UNCHANGED <<runDir, runUnit, disk, service, metadata, planner>>

\* chunk_path.unlink(missing_ok=True)
RunUnlink(r) ==
    /\ runPc[r] = "unlink"
    /\ LET q == ChunkPath(runDir[r], runUnit[r])
       IN  /\ fileOps' = RecordOp(r, "unlink", q)
           /\ disk' = [disk EXCEPT ![q] = 0]
    /\ RunNextUnit(r, "transcribe", "done")
    /\ UNCHANGED <<runDir, service, metadata, planner>>

ConcurrentInit ==
    /\ OneService
    /\ ffmpeg_available = TRUE
    /\ trueDuration = 800 * MsPerSecond
    /\ runDir \in [Runs -> TempDirs]
    /\ runPc = [r \in Runs |-> "extract"]
    /\ runUnit = [r \in Runs |-> 0]
    /\ disk = [q \in ChunkPaths |-> 0]
    /\ fileOps = {}
    /\ PlannerIdle

ConcurrentNext ==
    \E r \in Runs :
        \/ RunExtract(r)
        \/ RunTranscribe(r)
        \/ RunUnlink(r)

ConcurrentSpec == ConcurrentInit /\ [][ConcurrentNext]_vars

\* --------------------------------------- the planner, loop by loop
\* _create_intelligent_chunks_ffmpeg and its in-process fallback, one
\* iteration of the while loop per step, for any configured chunk_duration
\* and chunk_overlap (__init__ checks neither).
PlannerChunkDurations == {500, 30000, 400000}
PlannerChunkOverlaps == {0, 500, 1000}
PlannerDurations == Durations \cup {0, 40 * 60 * MsPerSecond}

\* chunks_needed and optimal_chunk_duration = total_duration / chunks_needed
PlanBegin ==
    /\ planPc = "begin"
    /\ IF ChunksNeeded(trueDuration, effective_duration_limit) = 0
       THEN planPc' = "raised"      \* ZeroDivisionError
       ELSE planPc' = "ffmpeg"
    /\ current_pos' = 0
    /\ chunk_index' = 0
    /\ planned' = 0
    /\ UNCHANGED <<service, metadata, concurrent>>

\* one pass of "while current_pos < total_duration" of
\* _create_intelligent_chunks_ffmpeg; positions are numerators over n;
\* ok is the outcome of the extraction, load that of AudioSegment.from_file
PlanFfmpegIteration ==
    /\ planPc = "ffmpeg"
    /\ LET T == trueDuration
           n == ChunksNeeded(T, effective_duration_limit)
           ov == PlannerOverlap(T, n)
           end_time == Min(current_pos + T, n * T)
           actual_duration == end_time - current_pos
       IN  IF ~(current_pos < n * T) \/ actual_duration < MinChunkMs * n
           THEN planPc' = "returned" /\ UNCHANGED <<current_pos, chunk_index, planned>>
           ELSE IF ~ffmpeg_available
           THEN \E load \in {"ok", "raise"} :
                  /\ planPc' = IF load = "ok" THEN "pydub" ELSE "returned"
                  /\ UNCHANGED <<current_pos, chunk_index, planned>>
           ELSE \E ok \in BOOLEAN :
                  IF ~ok
                  THEN planPc' = "returned" /\ UNCHANGED <<current_pos, chunk_index, planned>>
                  ELSE /\ planned' = planned + 1
                       /\ chunk_index' = chunk_index + 1
                       /\ IF chunk_index + 1 >= n
                          THEN planPc' = "returned" /\ current_pos' = current_pos
                          ELSE planPc' = "ffmpeg" /\ current_pos' = current_pos + T - ov * n
    /\ UNCHANGED <<service, metadata, concurrent>>

\* one pass of "while current_pos_ms < len(audio)" of
\* _create_intelligent_chunks_pydub_fallback; positions in ms
PlanPydubIteration ==
    /\ planPc = "pydub"
    /\ planned <= MaxPydubChunks
    /\ IF ~(current_pos < trueDuration)
       THEN planPc' = "returned" /\ UNCHANGED <<current_pos, chunk_index, planned>>
       ELSE /\ planned' = planned + 1
            /\ current_pos' = current_pos + chunk_duration - chunk_overlap
            /\ UNCHANGED <<planPc, chunk_index>>
    /\ UNCHANGED <<service, metadata, concurrent>>

PlannerInit ==
    /\ max_retries = 0
    /\ base_delay = 1
    /\ max_file_size_mb = 25
    /\ ffmpeg_available \in BOOLEAN
    /\ chunk_duration \in PlannerChunkDurations
    /\ chunk_overlap \in PlannerChunkOverlaps
    /\ inputKind = "audio"
    /\ trueDuration \in PlannerDurations
    \* a fallback loop that advances is followed to its end
    /\ (~ffmpeg_available /\ chunk_duration > chunk_overlap) =>
          CeilDiv(trueDuration, chunk_duration - chunk_overlap) <= MaxPydubChunks
    /\ probe = "ok"
    /\ inputPresent = TRUE
    /\ fs = InputFiles(TRUE, 10)
    /\ Start
    /\ PathInput
    /\ NoConcurrentRun
    /\ planPc = "begin"
    /\ current_pos = 0
    /\ chunk_index = 0
    /\ planned = 0

PlannerNext ==
    \/ PlanBegin
    \/ PlanFfmpegIteration
    \/ PlanPydubIteration

PlannerSpec == PlannerInit /\ [][PlannerNext]_vars


\* ------------------------------------------------------------- properties
Done == pc = "done"
UnitFinished == pc \in {"direct", "unit"} /\ exec \in {"response", "raised", "none"}
FailedUnits == {k \in 1..Len(units) : ~units[k].ok}
SucceededUnits == {k \in 1..Len(units) : units[k].ok}

\* C1: transcribe_audio never raises to its caller: every run ends by
\* returning a TranscriptionResult, and when an exception reached the
\* handler of transcribe_audio the result has success = false and a
\* non-empty error_message.
C1_NeverRaises ==
    /\ outcome # "raised"
    /\ Done <=> outcome = "returned"
    /\ boundary => /\ Done
                   /\ result.success = FALSE
                   /\ result.error_message # NoMessage

\* a run in which compression failed and an exception reached the handler
C1_Witness ==
    Done /\ boundary /\ compressionReturned = "None" /\ outcome = "returned"

\* C2: no file larger than max_file_size_mb is ever handed to the
\* transcription API, neither the file of a direct run nor a chunk file.
C2_NoOversizedUpload == \A sz \in uploads : sz <= max_file_size_mb * KBPerMB

\* C3: a chunked run's result has success = true exactly when at least one
\* unit was transcribed successfully; a direct run has one unit and its
\* result has success = true exactly when that unit succeeded.
C3_SuccessIffUnitSucceeded ==
    (Done /\ strategy # "none") =>
        IF strategy = "chunked"
        THEN result.success <=> SucceededUnits # {}
        ELSE Len(units) = 1 /\ (result.success <=> units[1].ok)

\* a chunked run that succeeded although one of its units failed
C3_Witness ==
    /\ Done /\ strategy = "chunked" /\ result.success
    /\ FailedUnits # {} /\ SucceededUnits # {}

\* C4: in every returned result, error_message is present exactly when
\* success is false.
C4_ErrorMessageIffFailed ==
    Done => ((result.error_message # NoMessage) <=> ~result.success)

\* the texts of the successful units, trimmed, blank ones left out, in unit
\* order, separated by one space
RECURSIVE C5_ExpectedTranscript(_)
C5_ExpectedTranscript(us) ==
    IF us = <<>> THEN <<>>
    ELSE LET before == C5_ExpectedTranscript(SubSeq(us, 1, Len(us) - 1))
             last == us[Len(us)]
             t == IF last.ok THEN Strip(last.text) ELSE <<>>
         IN  IF t = <<>> THEN before
             ELSE IF before = <<>> THEN t
             ELSE before \o <<" ">> \o t

\* C5: in a chunked run where some but not all units fail, success is true,
\* failed_chunks is the number of failed units and full_transcript is made
\* of the successful units' texts only, in unit order.
C5_PartialFailure ==
    (Done /\ strategy = "chunked" /\ FailedUnits # {} /\ SucceededUnits # {}) =>
        /\ result.success
        /\ result.failed_chunks = Cardinality(FailedUnits)
        /\ result.full_transcript = C5_ExpectedTranscript(units)

\* three units, the second failed: failed_chunks = 1, text of units 1 and 3
C5_Witness ==
    /\ Done /\ strategy = "chunked" /\ Len(units) = 3
    /\ units[1].ok /\ ~units[2].ok /\ units[3].ok
    /\ result.success /\ result.failed_chunks = 1
    /\ result.full_transcript = Word(0) \o <<" ">> \o Word(2)

\* C6 as stated: the API is invoked at most max_retries times for one unit.
C6_AtMostMaxRetriesCalls == apiCalls <= max_retries

\* C6: for one unit the API is invoked at most max_retries + 1 times (one
\* first attempt and max_retries retries), no call follows a successful
\* response, and a unit whose every attempt failed transiently is reported
\* failed after exactly max_retries + 1 calls.
C6_AtMostMaxRetriesPlusOneCalls ==
    /\ [](apiCalls <= max_retries + 1)
    /\ [][exec = "response" => apiCalls' \in {apiCalls, 0}]_vars
    /\ []((UnitFinished /\ exec # "response"
            /\ (exec = "raised" => IsRetryable(lastError)))
          => apiCalls = max_retries + 1)

\* a unit given up after max_retries + 1 calls that all failed transiently
C6_Witness ==
    /\ UnitFinished /\ exec = "raised" /\ lastError = ErrRateLimit
    /\ max_retries = 2 /\ apiCalls = 3

\* C7: exactly one wait separates two consecutive attempts, the wait before
\* attempt k+1 is base_delay * 2^(k-1), and no wait follows the final
\* attempt; two failures and a response on the third attempt give the waits
\* base_delay and 2 * base_delay.
C7_BackoffWaits ==
    /\ \A k \in 1..Len(waits) : waits[k] = base_delay * (2 ^ (k - 1))
    /\ (pc \in {"direct", "unit"} /\ exec = "calling") => Len(waits) = apiCalls
    /\ (UnitFinished /\ exec # "none") => Len(waits) = apiCalls - 1
    /\ (UnitFinished /\ exec = "response" /\ apiCalls = 3)
          => waits = <<base_delay, 2 * base_delay>>

\* a response on the third attempt, after the waits base_delay, 2 * base_delay
C7_Witness ==
    /\ UnitFinished /\ exec = "response" /\ apiCalls = 3
    /\ waits = <<base_delay, 2 * base_delay>> /\ response # <<>>

\* a three-digit status code 5xx in a description
IsDigit(c) == c \in {"0", "1", "2", "3", "4", "5", "6", "7", "8", "9"}
Has5xxStatus(s) ==
    \E i \in 1..(Len(s) - 2) :
        /\ s[i] = "5" /\ IsDigit(s[i + 1]) /\ IsDigit(s[i + 2])
        /\ (i > 1 => ~IsDigit(s[i - 1]))
        /\ (i + 3 <= Len(s) => ~IsDigit(s[i + 3]))

\* the transient markers: timeout, rate limit, 5xx / server error, connection
HasTransientMarker(msg) ==
    \/ Has5xxStatus(msg)
    \/ \E kw \in RetryKeywords \ {<<"5">>} : IsSubstring(kw, LowerStr(msg))

\* C8: a failure whose description carries no transient marker, whatever
\* else it contains, causes exactly one API call, no backoff wait and an
\* immediate unit failure.
C8_PermanentErrorNotRetried ==
    \* a call that failed and is being retried failed with a transient marker
    /\ (pc \in {"direct", "unit"} /\ exec = "calling" /\ apiCalls > 0)
          => HasTransientMarker(lastError)
    \* a first call that failed without one: one call, no wait, unit failed
    /\ (pc \in {"direct", "unit"} /\ apiCalls = 1 /\ exec # "response"
          /\ ~HasTransientMarker(lastError))
          => (exec = "raised" /\ waits = <<>>)

\* C9: the direct path is taken exactly when the size measured after
\* optimization is <= max_file_size_mb and the probed duration is <= 720 s;
\* a direct run has one unit, total_chunks = 1 and no chunking rationale;
\* a 5-minute 10 MB audio file with limit 25 MB is direct.
C9_DirectIffWithinLimits ==
    /\ strategy # "none" =>
         /\ strategy \in {"direct", "chunked"}
         /\ strategy = "direct" <=>
               (/\ final_file_size <= max_file_size_mb * KBPerMB
                /\ duration_seconds <= 720 * MsPerSecond)
         /\ strategy = "direct" => reasons = <<>>
         /\ strategy = "chunked" => reasons # <<>>
    /\ (Done /\ strategy = "direct") =>
         (result.total_chunks = 1 /\ Len(units) = 1)
    /\ (/\ strategy # "none" /\ max_file_size_mb = 25 /\ inputKind = "audio"
        /\ file_size = 10 * KBPerMB /\ duration_seconds = 300 * MsPerSecond)
          => strategy = "direct"

\* the 5-minute 10 MB file with limit 25 MB, transcribed directly
C9_Witness ==
    /\ Done /\ strategy = "direct" /\ max_file_size_mb = 25
    /\ file_size = 10 * KBPerMB /\ duration_seconds = 300 * MsPerSecond
    /\ inputKind = "audio" /\ result.total_chunks = 1 /\ result.success

\* C10: size over the limit and duration within the safe ceiling: one
\* compression attempt before any API call; compressed size <= limit gives
\* a direct run whose result carries the label "compression"; a failed
\* compression or a compressed file still over the limit gives a chunked run.
C10_CompressThenRecheck ==
    (/\ pc \notin {"resolve", "optimize"}
     /\ file_size > max_file_size_mb * KBPerMB
     /\ probe = "ok" /\ trueDuration <= 720 * MsPerSecond) =>
        /\ compressionAttempts = 1
        /\ pc = "select" => uploads = {}
        /\ Done =>
             IF compressionReturned = "path"
                  /\ final_file_size <= max_file_size_mb * KBPerMB
             THEN strategy = "direct" /\ result.optimization_applied = "compression"
             ELSE strategy = "chunked"

\* the Chunk Planner has run on the probed duration of the file
Planned == strategy = "chunked" /\ pc # "chunk_plan" /\ probe = "ok"

\* chunk k of the plan (k from 1); positions are numerators over chunkDen
ChunkLength(k) == chunks[k].end_time - chunks[k].start_time

\* C11: for a duration T above the per-chunk ceiling L the Chunk Planner
\* produces exactly ceil(T / L) units of equal length T / ceil(T / L) <= L,
\* the first starting at 0, each next one starting where the previous one
\* ended, the last ending at T, so that the lengths sum to T.
C11_EqualUnitsCoverDuration ==
    (Planned /\ trueDuration > effective_duration_limit) =>
        LET T == trueDuration
            n == CeilDiv(T, effective_duration_limit)
        IN  /\ Len(chunks) = n
            /\ \A k \in 1..Len(chunks) :
                  /\ ChunkLength(k) * n = T * chunkDen
                  /\ ChunkLength(k) <= effective_duration_limit * chunkDen
                  /\ chunks[k].start_time =
                        (IF k = 1 THEN 0 ELSE chunks[k - 1].end_time)
            /\ Len(chunks) > 0 => chunks[Len(chunks)].end_time = T * chunkDen

\* the scenario's input: 40 minutes probed, 15 MB, limit 25 MB
FortyMinuteInput ==
    /\ trueDuration = 40 * 60 * MsPerSecond /\ probe = "ok"
    /\ inputKind = "audio" /\ max_file_size_mb = 25
    /\ fs["input"].size = 15 * KBPerMB

\* C12 as stated: the 40-minute 15 MB input is a chunked run of exactly 4
\* equal units of 10 minutes without overlap, total_chunks = 4: the planner
\* divides by the 12-minute safe ceiling.
C12_FourTenMinuteUnits ==
    (Planned /\ FortyMinuteInput) =>
        /\ Len(chunks) = 4
        /\ \A k \in 1..Len(chunks) :
              /\ ChunkLength(k) = 10 * 60 * MsPerSecond * chunkDen
              /\ chunks[k].start_time = (k - 1) * 10 * 60 * MsPerSecond * chunkDen
        /\ Done => result.total_chunks = 4

\* C12: the 40-minute 15 MB input, with the external tool present, is a
\* chunked run planned by the effective ceiling of 307.2 s, not the safe
\* ceiling: ceil(2400 / 307.2) = 8 equal units of 5 minutes without overlap;
\* total_chunks is 8 when every clip is extracted, and the number of clips
\* extracted before the first failure otherwise.
C12_EightFiveMinuteUnits ==
    (Planned /\ FortyMinuteInput /\ ffmpeg_available) =>
        /\ chunkDen = 8
        /\ Len(chunks) <= 8
        /\ ~transcodeFailed => Len(chunks) = 8
        /\ \A k \in 1..Len(chunks) :
              /\ ChunkLength(k) = 5 * 60 * MsPerSecond * chunkDen
              /\ chunks[k].start_time = (k - 1) * 5 * 60 * MsPerSecond * chunkDen
              /\ ChunkLength(k) <= effective_duration_limit * chunkDen
        /\ (Done /\ ~boundary) => result.total_chunks = Len(chunks)

\* the scenario run to its end: 8 units handed over, total_chunks = 8
C12_Witness ==
    /\ Done /\ FortyMinuteInput /\ strategy = "chunked"
    /\ Len(units) = 8 /\ result.total_chunks = 8 /\ result.success
    /\ result.failed_chunks = 0

\* the trimmed, non-empty texts of the successful units, in unit order
RECURSIVE C13_Parts(_)
C13_Parts(us) ==
    IF us = <<>> THEN <<>>
    ELSE LET t == Strip(Head(us).text)
         IN  (IF Head(us).ok /\ t # <<>> THEN <<t>> ELSE <<>>) \o C13_Parts(Tail(us))

\* where part i starts in a text made of the parts with one separator each
RECURSIVE C13_Offset(_, _)
C13_Offset(ps, i) == IF i = 1 THEN 0 ELSE C13_Offset(ps, i - 1) + Len(ps[i - 1]) + 1

\* tr is the parts ps, every part once, in order, one space between two
C13_IsJoined(tr, ps) ==
    /\ Len(tr) = IF ps = <<>> THEN 0
                 ELSE C13_Offset(ps, Len(ps)) + Len(ps[Len(ps)])
    /\ \A i \in 1..Len(ps) :
          /\ SubSeq(tr, C13_Offset(ps, i) + 1, C13_Offset(ps, i) + Len(ps[i])) = ps[i]
          /\ i < Len(ps) => tr[C13_Offset(ps, i) + Len(ps[i]) + 1] = " "

JustReturned == Done /\ cleanupCalls = 0

\* C14: when transcribe_audio returns, whatever the outcome, no temporary
\* file of the call is left in the temp directory: not the audio extracted
\* from a video, not the compressed copy, not a chunk file.
C14_NoTempFileLeft ==
    JustReturned =>
        /\ ~fs["extracted"].exists
        /\ ~fs["compressed"].exists
        /\ chunkFiles = {}

C16_TranscodeFailureNotFatal ==
    (Done /\ transcodeFailed /\ probe = "ok") =>
        /\ uploads # {}
        /\ ~result.success => (FailedUnits # {} /\ handed # <<>>)

C18_UnitsInOrderExactlyOnce ==
    /\ \A k \in 1..(Len(handed) - 1) : handed[k] < handed[k + 1]
    /\ pc = "unit" =>
          /\ Len(units) = unitIdx
          /\ handed # <<>> /\ handed[Len(handed)] = chunks[unitIdx + 1].index
          /\ \A k \in 1..unitIdx : chunks[k].index \notin chunkFiles
    /\ (pc = "chunk_ret" \/ (Done /\ strategy = "chunked")) =>
          handed = [k \in 1..Len(chunks) |-> chunks[k].index]

\* C19: every unit handed to the Executor in a chunked run lasts at least
\* 1 second and at most the effective per-chunk ceiling min(1400 s,
\* 0.60 * (2048 * 0.75 / 3.0) s) = 307.2 s, on the external-tool path and
\* on the in-process fallback path, whatever chunk_duration and
\* chunk_overlap are configured.
C19_UnitDurationWithinCeiling ==
    pc = "unit" =>
        /\ effective_duration_limit = 307200
        /\ ChunkLength(unitIdx + 1) >= MinChunkMs * chunkDen
        /\ ChunkLength(unitIdx + 1) <= effective_duration_limit * chunkDen

\* C20: two consecutive units overlap only when the equal chunk length
\* T / ceil(T / L) is within 50 seconds of the ceiling L given to the
\* planner (length > L - 50 s); otherwise no audio is covered by two units.
C20_OverlapOnlyNearCeiling ==
    Planned =>
        LET T == trueDuration
            L == effective_duration_limit
            n == CeilDiv(T, L)
        IN  \A k \in 1..(Len(chunks) - 1) :
               chunks[k + 1].start_time < chunks[k].end_time
                  => T > (L - 50 * MsPerSecond) * n

\* C21: size over the limit and duration over the safe ceiling: compression
\* is skipped and the file left as it is exactly when
\* size / ceil(duration / safe ceiling) <= max_file_size_mb, otherwise
\* compression is attempted before chunking; either way the run is chunked.
C21_SkipCompressionWhenChunksFit ==
    (/\ pc \notin {"resolve", "optimize"}
     /\ file_size > max_file_size_mb * KBPerMB
     /\ probe = "ok" /\ trueDuration > 720 * MsPerSecond) =>
        LET fits == file_size <=
                       max_file_size_mb * KBPerMB
                          * CeilDiv(trueDuration, 720 * MsPerSecond)
        IN  /\ fits => /\ compressionAttempts = 0
                       /\ cleanupCalls = 0 =>
                             /\ fs[audio_path].exists
                             /\ fs[audio_path].size = file_size
                             /\ fs[audio_path].content # "compressed"
            /\ ~fits => compressionAttempts = 1
            /\ strategy \in {"none", "chunked"}
            /\ pc = "select" => uploads = {}
            /\ Done => strategy = "chunked"

\* C22: in a direct run the result follows the single Executor call:
\* success = true whenever the call returned a response, also one with an
\* empty text; success = false with the Executor's error whenever the call
\* failed; the result is never an unrelated internal error.
C22_DirectResultFollowsCall ==
    (Done /\ strategy = "direct") =>
        /\ ~boundary
        /\ Len(units) = 1
        /\ ~result.success =>
              /\ result.error_message # NoMessage
              /\ Head(result.error_message)
                    \in {"Direct transcription failed: ", "No response from API"}

\* C23: a probed duration of 0, or a failing probe, means 'unknown', not an
\* empty clip: whatever the file size, an existing input is still submitted
\* to the transcription API, at least one call is made.
C23_UnknownDurationStillTranscribed ==
    (Done /\ inputPresent /\ probe \in {"zero", "raise"}) => uploads # {}


\* C27: in every result a chunked run returns, the successful units plus
\* failed_chunks make total_chunks (len(segments) + failed_chunks =
\* total_chunks) and failed_chunks <= total_chunks: no unit is counted twice
\* and none is left uncounted.
C27_UnitsAccountedFor ==
    (Done /\ strategy = "chunked") =>
        /\ Len(result.segments) + result.failed_chunks = result.total_chunks
        /\ result.failed_chunks <= result.total_chunks

\* C28: the caller's input file is never lost: when the input exists at the
\* start of transcribe_audio, a file exists at the resolved path (and at the
\* caller's path) when it returns, and whenever compression returned None the
\* file at the resolved path still holds the content it had before the
\* compression, also when a step of the replace-original sequence failed.
C28_InputNeverLost ==
    (inputPresent /\ cleanupCalls = 0 /\ pc \notin {"resolve", "optimize"}) =>
        /\ fs["input"].exists
        /\ fs[audio_path].exists
        /\ compressionReturned = "None" =>
              /\ fs[audio_path].size = file_size
              /\ fs[audio_path].content =
                    (IF audio_path = "input" THEN "original" ELSE "extracted")

\* C29: a chunked result with success = true and failed_chunks = 0 covers the
\* whole audio: its units start at 0, end at the total duration, leave no
\* gap between them, and total_chunks = ceil(duration / effective ceiling);
\* a clip of unit k > 0 that could not be extracted cannot give a result
\* that reports no failed unit while the audio from unit k on is missing.
C29_CleanSuccessCoversAudio ==
    (Done /\ strategy = "chunked" /\ result.success /\ result.failed_chunks = 0) =>
        LET segs == result.segments
        IN  /\ result.total_chunks = CeilDiv(trueDuration, effective_duration_limit)
            /\ Len(segs) = result.total_chunks
            /\ segs[1].start_time = 0
            /\ segs[Len(segs)].end_time = chunkDen * trueDuration
            /\ \A k \in 1..(Len(segs) - 1) : segs[k + 1].start_time <= segs[k].end_time

\* C24: whenever the chunked strategy is chosen the rationale is non-empty
\* and holds exactly one reason for each condition that holds (size over the
\* upload limit, duration over the 720 s safe ceiling, duration over the
\* 1400 s absolute cap) and none for a condition that does not hold; the
\* rationale is a function of the size and the duration, so two calls with
\* the same size and duration give the same rationale.
C24_Count(r) == Cardinality({k \in 1..Len(reasons) : reasons[k] = r})

C24_Holds(r, size, d) ==
    CASE r = "file size exceeds API limit" -> size > max_file_size_mb * KBPerMB
      [] r = "duration exceeds safe limit" -> d > 720 * MsPerSecond
      [] r = "duration exceeds absolute API limit" -> d > 1400 * MsPerSecond

C24_Rationale(size, d) ==
    SelectSeq(<<"file size exceeds API limit", "duration exceeds safe limit",
                "duration exceeds absolute API limit">>,
              LAMBDA r : C24_Holds(r, size, d))

C24_RationaleNamesEveryCondition ==
    strategy = "chunked" =>
        /\ reasons # <<>>
        /\ \A r \in {"file size exceeds API limit", "duration exceeds safe limit",
                      "duration exceeds absolute API limit"} :
              C24_Count(r) = IF C24_Holds(r, final_file_size, duration_seconds) THEN 1 ELSE 0
        /\ \A k \in 1..Len(reasons) : C24_Count(reasons[k]) = 1
        /\ reasons = C24_Rationale(final_file_size, duration_seconds)

\* the chunked strategy chosen for a file over the size limit that is longer
\* than the absolute cap: all three reasons
C24_Witness ==
    /\ strategy = "chunked"
    /\ final_file_size > max_file_size_mb * KBPerMB
    /\ duration_seconds > 1400 * MsPerSecond
    /\ Len(reasons) = 3


\* C26: the audio-metadata store is append-only for the transcription core:
\* no step of a transcribe_audio call, its input resolution that opens the
\* store to look up an identifier included, removes or rewrites an entry
\* the store holds.
C26_StoreAppendOnly == [][store \subseteq store']_vars


\* C25: two transcribe runs that execute at the same time with distinct
\* temporary directories never interfere through chunk files: under every
\* interleaving no run reads, overwrites or deletes a chunk file written by
\* the other, each run transcribes only chunk files it extracted from its
\* own source, and every chunk file lies in the directory of its writer.
C25_NoInterference ==
    runDir[1] # runDir[2] =>
        /\ \A e \in fileOps :
              /\ e.op = "read" => e.writer = e.run
              /\ e.op \in {"write", "unlink"} => e.writer \in {0, e.run}
        /\ \A q \in ChunkPaths : disk[q] # 0 => q[1] = runDir[disk[q]]

\* with distinct directories, both runs have handed over the chunk file
\* of the same sequence index and neither has unlinked it yet
C25_Witness ==
    /\ runDir[1] # runDir[2]
    /\ \A r \in Runs : runPc[r] = "unlink" /\ runUnit[r] = 1
    /\ \A r \in Runs : [run |-> r, op |-> "read", writer |-> r] \in fileOps

\* C30: chunk planning terminates with a finite list of units for every
\* audio duration and every configuration, on both creation paths: the
\* external-tool loop runs at most ceil(T / L) iterations, and every
\* iteration of the in-process fallback loop moves its position forward
\* (the positions are whole milliseconds below len(audio), so the loop ends
\* exactly when each pass advances).
C30_PlanningTerminates ==
    [][/\ planPc = "ffmpeg" =>
            chunk_index' <= ChunksNeeded(trueDuration, effective_duration_limit)
       /\ (planPc = "pydub" /\ planPc' = "pydub") => current_pos' > current_pos]_vars

====
